---- MODULE Spec2Model ----
(***************************************************************************)
(* Model of ta_dashboard_dash.py: the indicator calculations (calc_bb,     *)
(* calc_macd, calc_rsi), the two-provider fetch (fetch_data) and the chart *)
(* builder / callback (build_figure, update_chart).                        *)
(*                                                                         *)
(* Floating point numbers are modelled as exact rationals extended with    *)
(* NaN and the two infinities; rounding is not modelled.  The square root  *)
(* taken by rolling(n).std() is kept symbolic (see Surd).                  *)
(***************************************************************************)
EXTENDS Integers, Sequences, FiniteSets, TLC

VARIABLES pc, req, calls, primaryOut, secondaryOut, df, computed, fig,
          close, call, result

vars == <<pc, req, calls, primaryOut, secondaryOut, df, computed, fig,
          close, call, result>>

renderVars == <<pc, req, calls, primaryOut, secondaryOut, df, computed, fig>>
calcVars   == <<close, call, result>>

-----------------------------------------------------------------------------
(* Bounds of the model *)

MaxLen == 3
MaxPrice == 3
MaxRows == 2
MaxDay == 2
\* the synthetic constant series: ConstDays days at price ConstPrice
ConstDays == 30
ConstPrice == 100

-----------------------------------------------------------------------------
(* Constants of the program *)

STOCKS == <<"MSFT", "GOOGL", "TSLA", "AAPL", "META">>
INDICATORS == {"Bollinger Bands", "MACD", "RSI"}

\* slider ranges and defaults of the layout
BbNMin == 1
BbNMax == 40
PeriodMin == 2
PeriodMax == 50
SlowDefault == 26
SignalDefault == 9

-----------------------------------------------------------------------------
(* Numbers: rationals with NaN and +-Inf *)

Abs(x) == IF x < 0 THEN -x ELSE x

RECURSIVE GCD(_, _)
GCD(a, b) == IF b = 0 THEN a ELSE GCD(b, a % b)

Num(n, d) ==
    LET g == GCD(Abs(n), Abs(d))
        s == IF d < 0 THEN -1 ELSE 1
    IN  [k |-> "num", n |-> s * (n \div g), d |-> s * (d \div g)]

Int2F(i) == [k |-> "num", n |-> i, d |-> 1]
NaN  == [k |-> "nan", n |-> 0, d |-> 1]
PInf == [k |-> "inf", n |-> 1, d |-> 0]
NInf == [k |-> "inf", n |-> -1, d |-> 0]

IsNaN(x) == x.k = "nan"
IsNum(x) == x.k = "num"
Sgn(x) == IF x.n > 0 THEN 1 ELSE IF x.n < 0 THEN -1 ELSE 0
InfOf(s) == IF s < 0 THEN NInf ELSE PInf

FNeg(x) == IF IsNum(x) THEN [x EXCEPT !.n = -x.n]
           ELSE IF IsNaN(x) THEN NaN ELSE InfOf(-x.n)

FAdd(x, y) ==
    IF IsNaN(x) \/ IsNaN(y) THEN NaN
    ELSE IF ~IsNum(x) THEN (IF ~IsNum(y) /\ y.n # x.n THEN NaN ELSE x)
    ELSE IF ~IsNum(y) THEN y
    ELSE LET g == GCD(x.d, y.d)
         IN  Num(x.n * (y.d \div g) + y.n * (x.d \div g), (x.d \div g) * y.d)

FSub(x, y) == FAdd(x, FNeg(y))

FMul(x, y) ==
    IF IsNaN(x) \/ IsNaN(y) THEN NaN
    ELSE IF ~IsNum(x) \/ ~IsNum(y)
         THEN (IF Sgn(x) * Sgn(y) = 0 THEN NaN ELSE InfOf(Sgn(x) * Sgn(y)))
    ELSE LET g1 == GCD(Abs(x.n), y.d)
             g2 == GCD(Abs(y.n), x.d)
         IN  Num((x.n \div g1) * (y.n \div g2), (x.d \div g2) * (y.d \div g1))

FDiv(x, y) ==
    IF IsNaN(x) \/ IsNaN(y) THEN NaN
    ELSE IF ~IsNum(x) THEN (IF ~IsNum(y) THEN NaN
                            ELSE InfOf(x.n * (IF y.n < 0 THEN -1 ELSE 1)))
    ELSE IF ~IsNum(y) THEN Int2F(0)
    ELSE IF y.n = 0 THEN (IF x.n = 0 THEN NaN ELSE InfOf(x.n))
    ELSE FMul(x, Num(y.d, y.n))

\* x <= y, false whenever a NaN is involved
FLe(x, y) ==
    IF IsNaN(x) \/ IsNaN(y) THEN FALSE
    ELSE IF ~IsNum(x) THEN x.n < 0 \/ x = y
    ELSE IF ~IsNum(y) THEN y.n > 0
    ELSE x.n * y.d <= y.n * x.d

-----------------------------------------------------------------------------
(* pandas Series: an index (labels) and positionally matching values *)

Series(idx, vals) == [index |-> idx, values |-> vals]
MapS(s, F(_)) == Series(s.index, [i \in 1..Len(s.values) |-> F(s.values[i])])

\* Binary arithmetic of two Series.  Operands that carry the same index are
\* combined position by position; otherwise the labels are aligned on the
\* union of both indexes and a label missing on one side yields NaN.
RECURSIVE Lookup(_, _, _)
Lookup(s, lab, i) ==
    IF i > Len(s.index) THEN NaN
    ELSE IF s.index[i] = lab THEN s.values[i] ELSE Lookup(s, lab, i + 1)

RECURSIVE SortedLabels(_)
SortedLabels(S) ==
    IF S = {} THEN <<>>
    ELSE LET m == CHOOSE x \in S : \A y \in S : x <= y
         IN  <<m>> \o SortedLabels(S \ {m})

Range(f) == {f[i] : i \in DOMAIN f}

BinOp(Op(_, _), a, b) ==
    IF a.index = b.index
    THEN Series(a.index, [i \in 1..Len(a.values) |-> Op(a.values[i], b.values[i])])
    ELSE LET labs == SortedLabels(Range(a.index) \cup Range(b.index))
         IN  Series(labs, [i \in 1..Len(labs) |->
                              Op(Lookup(a, labs[i], 1), Lookup(b, labs[i], 1))])

-----------------------------------------------------------------------------
(* Values with a symbolic square root: a + b * sqrt(c), c > 0, b # 0.      *)
(* sqrt(0) is the number 0; any other radicand is kept as written.         *)

Surd(a, b, c) ==
    IF IsNaN(a) \/ IsNaN(b) \/ IsNaN(c) THEN NaN
    ELSE IF b = Int2F(0) \/ c = Int2F(0) THEN a
    ELSE [k |-> "surd", a |-> a, b |-> b, c |-> c]

IsSurd(x) == x.k = "surd"

VSqrt(x) ==
    IF IsNaN(x) THEN NaN
    ELSE IF ~IsNum(x) THEN (IF x.n > 0 THEN PInf ELSE NaN)
    ELSE IF x.n < 0 THEN NaN
    ELSE Surd(Int2F(0), Int2F(1), x)

\* f * x for a number f
VScale(f, x) ==
    IF IsSurd(x) THEN Surd(FMul(f, x.a), FMul(f, x.b), x.c) ELSE FMul(f, x)

\* x + y; two surds are only ever added over the same radicand
VAdd(x, y) ==
    IF IsSurd(x) /\ IsSurd(y) THEN Surd(FAdd(x.a, y.a), FAdd(x.b, y.b), x.c)
    ELSE IF IsSurd(x) THEN Surd(FAdd(x.a, y), x.b, x.c)
    ELSE IF IsSurd(y) THEN Surd(FAdd(x, y.a), y.b, y.c)
    ELSE FAdd(x, y)

VSub(x, y) == VAdd(x, VScale(Int2F(-1), y))

-----------------------------------------------------------------------------
(* pandas operations used by the indicator functions *)

\* Series.rolling(n).mean(): sliding sum over the last n observations,
\* min_periods = n; a value is produced once nobs >= min_periods and nobs > 0.
\* One step adds vals[i] and removes vals[i - n] once the window is full.
RollMeanStep(st, vals, n, i) ==
    LET addObs == ~IsNaN(vals[i])
        n1 == IF addObs THEN st.nobs + 1 ELSE st.nobs
        s1 == IF addObs THEN FAdd(st.sum, vals[i]) ELSE st.sum
        remObs == i - n >= 1 /\ ~IsNaN(vals[i - n])
    IN  [nobs |-> IF remObs THEN n1 - 1 ELSE n1,
         sum  |-> IF remObs THEN FSub(s1, vals[i - n]) ELSE s1]

RollMeanOut(st, n) ==
    IF st.nobs >= n /\ st.nobs > 0 THEN FDiv(st.sum, Int2F(st.nobs)) ELSE NaN

RECURSIVE RollMeanLoop(_, _, _, _)
RollMeanLoop(vals, n, i, st) ==
    IF i > Len(vals) THEN <<>>
    ELSE LET st2 == RollMeanStep(st, vals, n, i)
         IN  <<RollMeanOut(st2, n)>> \o RollMeanLoop(vals, n, i + 1, st2)

rolling_mean(s, n) ==
    Series(s.index, RollMeanLoop(s.values, n, 1, [nobs |-> 0, sum |-> Int2F(0)]))

\* Series.rolling(n).var() with ddof = 1: Welford's add/remove updates of
\* the running mean and the sum of squared differences from the mean.
RollVarAdd(st, v) ==
    IF IsNaN(v) THEN st
    ELSE LET m1 == FAdd(st.mean, FDiv(FSub(v, st.mean), Int2F(st.nobs + 1)))
         IN  [nobs  |-> st.nobs + 1,
              mean  |-> m1,
              ssqdm |-> FAdd(st.ssqdm, FMul(FSub(v, st.mean), FSub(v, m1)))]

RollVarRemove(st, w) ==
    IF IsNaN(w) THEN st
    ELSE IF st.nobs - 1 = 0 THEN [nobs |-> 0, mean |-> Int2F(0), ssqdm |-> Int2F(0)]
    ELSE LET m2 == FSub(st.mean, FDiv(FSub(w, st.mean), Int2F(st.nobs - 1)))
         IN  [nobs  |-> st.nobs - 1,
              mean  |-> m2,
              ssqdm |-> FSub(st.ssqdm, FMul(FSub(w, st.mean), FSub(w, m2)))]

RollVarOut(st, n) ==
    IF st.nobs >= n /\ st.nobs > 1 THEN FDiv(st.ssqdm, Int2F(st.nobs - 1)) ELSE NaN

RECURSIVE RollVarLoop(_, _, _, _)
RollVarLoop(vals, n, i, st) ==
    IF i > Len(vals) THEN <<>>
    ELSE LET st1 == RollVarAdd(st, vals[i])
             st2 == IF i - n >= 1 THEN RollVarRemove(st1, vals[i - n]) ELSE st1
         IN  <<RollVarOut(st2, n)>> \o RollVarLoop(vals, n, i + 1, st2)

\* Mutant of rolling_var: the population variance (ddof = 0)
rolling_var_population(s, n) ==
    Series(s.index,
           [i \in 1..Len(s.values) |->
               FMul(RollVarLoop(s.values, n, 1,
                                [nobs |-> 0, mean |-> Int2F(0), ssqdm |-> Int2F(0)])[i],
                    Num(n - 1, n))])

rolling_var(s, n) ==
    Series(s.index, RollVarLoop(s.values, n, 1,
                                [nobs |-> 0, mean |-> Int2F(0), ssqdm |-> Int2F(0)]))

\* Series.rolling(n).std(): the square root of the rolling variance
rolling_std(s, n) == MapS(rolling_var(s, n), VSqrt)

\* Series.rolling(n) rejects a negative window
RollingRaises(n) == n < 0

\* Series.ewm(alpha, adjust=False).mean(), ignore_na=False, min_periods=0:
\* the running weighted value starts at the first observation; a later
\* observation cur replaces it by
\*   (old_wt * weighted + alpha * cur) / (old_wt + alpha)
\* with old_wt decayed by (1 - alpha) per step and reset to 1 after each
\* observation.
EwmStep(st, cur, alpha) ==
    LET decayed == FMul(st.old_wt, FSub(Int2F(1), alpha))
    IN  IF IsNaN(st.weighted) THEN [weighted |-> cur, old_wt |-> st.old_wt]
        ELSE IF IsNaN(cur) THEN [weighted |-> st.weighted, old_wt |-> decayed]
        ELSE [weighted |-> IF st.weighted # cur
                           THEN FDiv(FAdd(FMul(decayed, st.weighted), FMul(alpha, cur)),
                                     FAdd(decayed, alpha))
                           ELSE st.weighted,
              old_wt   |-> Int2F(1)]

RECURSIVE EwmLoop(_, _, _, _)
EwmLoop(vals, alpha, i, st) ==
    IF i > Len(vals) THEN <<>>
    ELSE LET st2 == EwmStep(st, vals[i], alpha)
         IN  <<st2.weighted>> \o EwmLoop(vals, alpha, i + 1, st2)

\* Mutant of ewm_mean: the bias-corrected average (adjust=True)
RECURSIVE EwmAdjustedLoop(_, _, _, _)
EwmAdjustedLoop(vals, alpha, i, st) ==
    IF i > Len(vals) THEN <<>>
    ELSE LET st2 == [num |-> FAdd(FMul(FSub(Int2F(1), alpha), st.num), vals[i]),
                     den |-> FAdd(FMul(FSub(Int2F(1), alpha), st.den), Int2F(1))]
         IN  <<FDiv(st2.num, st2.den)>> \o EwmAdjustedLoop(vals, alpha, i + 1, st2)

ewm_mean_adjusted(s, alpha) ==
    Series(s.index, EwmAdjustedLoop(s.values, alpha, 1,
                                    [num |-> Int2F(0), den |-> Int2F(0)]))

ewm_mean(s, alpha) ==
    Series(s.index, EwmLoop(s.values, alpha, 1, [weighted |-> NaN, old_wt |-> Int2F(1)]))

\* ewm(span=...) requires span >= 1 and uses alpha = 2 / (span + 1)
SpanRaises(span) == span < 1
SpanAlpha(span) == Num(2, span + 1)

\* ewm(alpha=...) requires 0 < alpha <= 1
AlphaRaises(alpha) == ~(alpha.n > 0 /\ FLe(alpha, Int2F(1)))

\* Mutant of diff: the differences without the leading undefined element
diff_dropfirst(s) ==
    Series(Tail(s.index), [i \in 1..(Len(s.values) - 1) |->
                              FSub(s.values[i + 1], s.values[i])])

\* Series.diff(): the first element has no predecessor
diff(s) ==
    Series(s.index, [i \in 1..Len(s.values) |->
                        IF i = 1 THEN NaN ELSE FSub(s.values[i], s.values[i - 1])])

\* Series.clip(lower=0) / Series.clip(upper=0): NaN stays NaN
ClipLower0(x) == IF IsNaN(x) THEN NaN ELSE IF FLe(x, Int2F(0)) THEN Int2F(0) ELSE x
ClipUpper0(x) == IF IsNaN(x) THEN NaN ELSE IF FLe(Int2F(0), x) THEN Int2F(0) ELSE x

\* Mutant of Replace0: the zero is left in place
Replace0_kept(x) == x

\* Series.replace(0, nan)
Replace0(x) == IF x = Int2F(0) THEN NaN ELSE x

-----------------------------------------------------------------------------
(* Indicator calculations.  A call either returns a tuple of Series or     *)
(* raises; raised = "" means it returned.                                  *)

Return(out) == [raised |-> "", out |-> out]
Raise(exc)  == [raised |-> exc, out |-> <<>>]

\* return mid + k * std, mid, mid - k * std
BandsOf(mid, kstd) ==
    Return(<<BinOp(VAdd, mid, kstd), mid, BinOp(VSub, mid, kstd)>>)

calc_bb(c, n, k) ==
    IF RollingRaises(n) THEN Raise("ValueError")
    ELSE BandsOf(rolling_mean(c, n),
                 MapS(rolling_std(c, n), LAMBDA x : VScale(k, x)))

\* histogram = macd_line - signal_line; return macd_line, signal_line, histogram
MacdOf(macd_line, signal_line) ==
    Return(<<macd_line, signal_line, BinOp(FSub, macd_line, signal_line)>>)

\* signal_line = macd_line.ewm(span=signal, adjust=False).mean()
SignalOf(macd_line, signal) ==
    IF SpanRaises(signal) THEN Raise("ValueError")
    ELSE MacdOf(macd_line, ewm_mean(macd_line, SpanAlpha(signal)))

\* Mutant of calc_macd: the two averages are added
calc_macd_added(c, fast, slow, signal) ==
    IF SpanRaises(fast) \/ SpanRaises(slow) THEN Raise("ValueError")
    ELSE SignalOf(BinOp(FAdd, ewm_mean(c, SpanAlpha(fast)),
                              ewm_mean(c, SpanAlpha(slow))), signal)

calc_macd(c, fast, slow, signal) ==
    IF SpanRaises(fast) \/ SpanRaises(slow) THEN Raise("ValueError")
    ELSE SignalOf(BinOp(FSub, ewm_mean(c, SpanAlpha(fast)),
                              ewm_mean(c, SpanAlpha(slow))), signal)

\* 100 - (100 / (1 + rs))
RsiOf(rs) == FSub(Int2F(100), FDiv(Int2F(100), FAdd(Int2F(1), rs)))

\* gain, loss and rs = gain / loss.replace(0, nan) for alpha = 1/n
RsiFrom(delta, alpha) ==
    IF AlphaRaises(alpha) THEN Raise("ValueError")
    ELSE Return(<<MapS(BinOp(FDiv,
                             ewm_mean(MapS(delta, ClipLower0), alpha),
                             MapS(ewm_mean(MapS(MapS(delta, ClipUpper0), FNeg), alpha),
                                  Replace0)),
                       RsiOf)>>)

calc_rsi(c, n) ==
    IF n = 0 THEN Raise("ZeroDivisionError")
    ELSE RsiFrom(diff(c), Num(1, n))

-----------------------------------------------------------------------------
(* Data frames.  A frame has a set of column names (cols; multi tells      *)
(* whether they are the first level of a MultiIndex), an index and rows.   *)
(* Of a row's cells only the 'Date' cell (text, CSV frames only) and the   *)
(* 'Close' cell are carried; the other price columns are only ever handed  *)
(* to the renderer, so their presence in cols is all that is recorded.     *)

OHLC == {"Open", "High", "Low", "Close"}

NoCell == <<0, 0, 0>>
Row(date, c) == [date |-> date, close |-> c]
Frame(multi, cols, index, rows) ==
    [multi |-> multi, cols |-> cols, index |-> index, rows |-> rows]

\* pd.DataFrame()
EmptyFrame == Frame(FALSE, {}, <<>>, <<>>)

\* DataFrame.empty: some axis has length 0
IsEmpty(f) == Len(f.rows) = 0 \/ f.cols = {}

\* A calendar day as a sort key, and the text of a date as <<y, m, d>>
Ordinal(ymd) == ymd[1] * 372 + (ymd[2] - 1) * 31 + ymd[3]
Parses(cell) == cell[1] >= 1 /\ cell[2] \in 1..12 /\ cell[3] \in 1..31

\* pd.to_datetime(df['Date']): raises when some cell is not a date
ToDatetimeRaises(f) == \E i \in 1..Len(f.rows) : ~Parses(f.rows[i].date)
to_datetime(f) == [i \in 1..Len(f.rows) |-> Ordinal(f.rows[i].date)]

\* df.set_index('Date', inplace=True) after the column was parsed
set_index(f) == Frame(f.multi, f.cols \ {"Date"}, to_datetime(f), f.rows)

\* Mutant of sort_index: the rows are left in the order of the file
sort_index_skipped(f) == {f}

\* df.sort_index(inplace=True): the rows in an order of ascending labels
\* (the order of rows with equal labels is left to the sort)
Perms(n) == {p \in [1..n -> 1..n] : \A i, j \in 1..n : i # j => p[i] # p[j]}
Permute(f, p) ==
    Frame(f.multi, f.cols, [i \in 1..Len(f.index) |-> f.index[p[i]]],
          [i \in 1..Len(f.rows) |-> f.rows[p[i]]])
Ascending(idx) == \A i \in 1..(Len(idx) - 1) : idx[i] <= idx[i + 1]
sort_index(f) == {g \in {Permute(f, p) : p \in Perms(Len(f.index))} : Ascending(g.index)}

\* df.columns = df.columns.get_level_values(0)
Flatten(f) == IF f.multi THEN [f EXCEPT !.multi = FALSE] ELSE f

\* df["Close"]
CloseOf(f) == Series(f.index, [i \in 1..Len(f.rows) |-> Int2F(f.rows[i].close)])

-----------------------------------------------------------------------------
(* Python helpers *)

\* s[:10]
Slice10(s) == SubSeq(s, 1, IF Len(s) < 10 THEN Len(s) ELSE 10)
\* s.replace('-', '')
NoDash(c) == c # "-"
StripDashes(s) == SelectSeq(s, NoDash)
\* asset.lower() for the symbols of STOCKS
Lower(a) ==
    CASE a = "MSFT" -> "msft" [] a = "GOOGL" -> "googl" [] a = "TSLA" -> "tsla"
      [] a = "AAPL" -> "aapl" [] a = "META" -> "meta" [] OTHER -> a
\* int(x): truncation toward zero
PyInt(x) == IF x.n >= 0 THEN x.n \div x.d ELSE -((-x.n) \div x.d)

\* "except Exception" catches every provider error
Exceptions == {"ConnectionError", "HTTPError", "ParserError", "ValueError",
               "KeyError", "ZeroDivisionError"}
ExceptException(exc) == exc \in Exceptions

-----------------------------------------------------------------------------
(* fetch_data: the two try blocks.  A provider's outcome is a raised       *)
(* exception or a frame; a try block returns a frame, falls through to the *)
(* code after it, or lets an exception escape.                             *)

Raised(exc) == [raised |-> exc, frame |-> EmptyFrame]
Gave(f)     == [raised |-> "", frame |-> f]
NotCalled   == [raised |-> "not called", frame |-> EmptyFrame]

Returns(f)  == [kind |-> "return", df |-> f, exc |-> ""]
Falls       == [kind |-> "fall", df |-> EmptyFrame, exc |-> ""]
Escapes(e)  == [kind |-> "raise", df |-> EmptyFrame, exc |-> e]

\* Mutant of StooqHandler: only a ValueError is caught
StooqHandler_narrow(exc) == exc = "ValueError"

YfHandler(exc) == ExceptException(exc)
StooqHandler(exc) == ExceptException(exc)

\* Attempt 1: yfinance
TryYf(o) ==
    IF o.raised # ""
    THEN (IF YfHandler(o.raised) THEN Falls ELSE Escapes(o.raised))
    ELSE IF ~IsEmpty(o.frame) THEN Returns(Flatten(o.frame))
    ELSE Falls

\* Attempt 2: Stooq CSV
TryStooq(o) ==
    IF o.raised # ""
    THEN (IF StooqHandler(o.raised) THEN {Falls} ELSE {Escapes(o.raised)})
    ELSE IF ~IsEmpty(o.frame) /\ "Date" \in o.frame.cols
    THEN (IF ToDatetimeRaises(o.frame)
          THEN (IF StooqHandler("ValueError") THEN {Falls} ELSE {Escapes("ValueError")})
          ELSE {Returns(g) : g \in sort_index(set_index(o.frame))})
    ELSE {Falls}

-----------------------------------------------------------------------------
(* build_figure after fetch_data has returned df *)

NoFig       == [kind |-> "none",   exc |-> "", nrows |-> 0, traces |-> <<>>]
EmptyFig    == [kind |-> "empty",  exc |-> "", nrows |-> 0, traces |-> <<>>]
ErrorFig(e) == [kind |-> "raise",  exc |-> e,  nrows |-> 0, traces |-> <<>>]
Figure(n, t) == [kind |-> "figure", exc |-> "", nrows |-> n, traces |-> t]

Trace(name, row, x, y) == [name |-> name, row |-> row, x |-> x, y |-> y]
Built(f, c) == [fig |-> f, computed |-> c]

\* The traces of one indicator call, in the order they are added
Traces(name, row, idx, out, order) ==
    [i \in 1..Len(out) |-> Trace(name, row, idx, out[order[i]].values)]

\* The two threshold lines of the RSI row
HLines(r, row) ==
    <<Trace("hline", row, <<>>, <<r.rsi_upper>>),
      Trace("hline", row, <<>>, <<r.rsi_lower>>)>>

\* The figure once the selected indicators were computed (bb, macd, rsi:
\* the result of the call, Return(<<>>) for an indicator not selected)
Assemble(r, d, c, bb, macd, rsi) ==
    LET sel       == r.indicators
        show_macd == "MACD" \in sel
        show_rsi  == "RSI" \in sel
        rows      == 1 + (IF show_macd THEN 1 ELSE 0) + (IF show_rsi THEN 1 ELSE 0)
        rsi_row   == IF show_macd THEN 3 ELSE 2
    IN  IF bb.raised # "" THEN Built(ErrorFig(bb.raised), {})
        ELSE IF macd.raised # ""
             THEN Built(ErrorFig(macd.raised), sel \cap {"Bollinger Bands"})
        ELSE IF rsi.raised # ""
             THEN Built(ErrorFig(rsi.raised), sel \cap {"Bollinger Bands", "MACD"})
        ELSE Built(Figure(rows,
                          <<Trace(r.stock, 1, d.index, c.values)>>
                          \o Traces("BB", 1, d.index, bb.out, <<1, 2, 3>>)
                          \o Traces("MACD", 2, d.index, macd.out, <<3, 1, 2>>)
                          \o Traces("RSI", rsi_row, d.index, rsi.out, <<1>>)
                          \o (IF show_rsi THEN HLines(r, rsi_row) ELSE <<>>)),
                   sel)

Indicators(r, d, c) ==
    Assemble(r, d, c,
             IF "Bollinger Bands" \in r.indicators
             THEN calc_bb(c, PyInt(r.bb_n), r.bb_k) ELSE Return(<<>>),
             IF "MACD" \in r.indicators
             THEN calc_macd(c, PyInt(r.macd_fast), PyInt(r.macd_slow),
                            PyInt(r.macd_signal))
             ELSE Return(<<>>),
             IF "RSI" \in r.indicators
             THEN calc_rsi(c, PyInt(r.rsi_period)) ELSE Return(<<>>))

build_figure(r, d) ==
    IF IsEmpty(d) THEN Built(EmptyFig, {})
    ELSE IF ~(OHLC \subseteq d.cols) THEN Built(ErrorFig("KeyError"), {})
    ELSE Indicators(r, d, CloseOf(d))

-----------------------------------------------------------------------------
(* Inputs of a render: the callback's arguments and what the providers     *)
(* answer.                                                                 *)

Quotes == {1, 2}

RowSeeds(cells, least) == UNION {[1..l -> cells \X Quotes] : l \in least..MaxRows}

PrimaryColumns == {<<TRUE,  OHLC \cup {"Volume"}>>,
                   <<FALSE, OHLC>>,
                   <<FALSE, {"Open", "High", "Low", "Volume"}>>}

\* yf.download's answer when it has no data: no rows under its usual columns
PrimaryEmpty == Frame(TRUE, OHLC \cup {"Volume"}, <<>>, <<>>)

PrimaryFrames ==
    {PrimaryEmpty} \cup
    {Frame(mc[1], mc[2],
           [i \in 1..Len(rs) |-> Ordinal(<<2018, 1, rs[i][1]>>)],
           [i \in 1..Len(rs) |-> Row(NoCell, rs[i][2])]) :
        mc \in PrimaryColumns, rs \in RowSeeds(1..MaxDay, 1)}

PrimaryOutcomes == {Raised("ConnectionError")} \cup {Gave(f) : f \in PrimaryFrames}

CsvColumns == {OHLC \cup {"Date", "Volume"}, OHLC \cup {"Date"}, OHLC \cup {"Volume"}}

CsvCells == {<<2018, 1, d>> : d \in 1..MaxDay} \cup {NoCell}

CsvFrames ==
    {Frame(FALSE, cs, [i \in 1..Len(rs) |-> i - 1],
           [i \in 1..Len(rs) |-> Row(rs[i][1], rs[i][2])]) :
        cs \in CsvColumns, rs \in RowSeeds(CsvCells, 0)}

SecondaryOutcomes == {Raised("HTTPError")} \cup {Gave(f) : f \in CsvFrames}

StartText == <<"2", "0", "1", "8", "-", "0", "1", "-", "0", "1", "T", "0", "0">>
EndText   == <<"2", "0", "1", "8", "-", "1", "2", "-", "3", "1">>

BaseRequest ==
    [stock |-> STOCKS[1], indicators |-> INDICATORS,
     start_date |-> StartText, end_date |-> EndText,
     bb_n |-> Int2F(2), bb_k |-> Int2F(2),
     macd_fast |-> Int2F(2), macd_slow |-> Int2F(3), macd_signal |-> Int2F(2),
     rsi_period |-> Int2F(2), rsi_upper |-> Int2F(70), rsi_lower |-> Int2F(30)]

NoRequest == [BaseRequest EXCEPT !.stock = "", !.indicators = {},
                                 !.start_date = <<>>, !.end_date = <<>>]

Requests ==
    {BaseRequest, [BaseRequest EXCEPT !.indicators = {}]}
    \cup {[BaseRequest EXCEPT !.bb_n = Int2F(1), !.bb_k = Num(1, 2)],
          [BaseRequest EXCEPT !.bb_n = Num(5, 2)],
          [BaseRequest EXCEPT !.bb_n = Int2F(-1)],
          [BaseRequest EXCEPT !.macd_signal = Int2F(0)],
          [BaseRequest EXCEPT !.rsi_period = Int2F(0)],
          [BaseRequest EXCEPT !.rsi_period = Int2F(-1)],
          [BaseRequest EXCEPT !.stock = ""],
          [BaseRequest EXCEPT !.start_date = <<>>],
          [BaseRequest EXCEPT !.end_date = <<>>]}

-----------------------------------------------------------------------------
(* The render: update_chart -> build_figure -> fetch_data -> indicators    *)

RenderInit ==
    /\ pc = "idle"
    /\ req = NoRequest
    /\ calls = <<>>
    /\ primaryOut = NotCalled
    /\ secondaryOut = NotCalled
    /\ df = EmptyFrame
    /\ computed = {}
    /\ fig = NoFig

\* update_chart up to the first provider call
UpdateChart(r) ==
    /\ pc = "idle"
    /\ calls' = <<>>
    /\ primaryOut' = NotCalled
    /\ secondaryOut' = NotCalled
    /\ df' = EmptyFrame
    /\ computed' = {}
    /\ IF r.stock = "" \/ r.start_date = <<>> \/ r.end_date = <<>>
       THEN /\ req' = r
            /\ fig' = EmptyFig
            /\ pc' = "idle"
       ELSE /\ req' = [r EXCEPT !.start_date = Slice10(r.start_date),
                                !.end_date = Slice10(r.end_date)]
            /\ fig' = NoFig
            /\ pc' = "yf"
    /\ UNCHANGED calcVars

\* fetch_data: yf.download answers o
YfDownload(o) ==
    /\ pc = "yf"
    /\ calls' = Append(calls, [fn |-> "yf.download", sym |-> req.stock,
                               d1 |-> req.start_date, d2 |-> req.end_date])
    /\ primaryOut' = o
    /\ LET t == TryYf(o)
       IN  /\ df' = t.df
           /\ pc' = CASE t.kind = "return" -> "fetched"
                      [] t.kind = "fall" -> "stooq"
                      [] OTHER -> "idle"
           /\ fig' = IF t.kind = "raise" THEN ErrorFig(t.exc) ELSE fig
    /\ UNCHANGED <<req, secondaryOut, computed>>
    /\ UNCHANGED calcVars

\* fetch_data: pd.read_csv answers o; the function then returns
StooqReadCsv(o) ==
    /\ pc = "stooq"
    /\ calls' = Append(calls, [fn |-> "pd.read_csv", sym |-> Lower(req.stock),
                               d1 |-> StripDashes(req.start_date),
                               d2 |-> StripDashes(req.end_date)])
    /\ secondaryOut' = o
    /\ \E t \in TryStooq(o) :
           /\ df' = t.df
           /\ pc' = IF t.kind = "raise" THEN "idle" ELSE "fetched"
           /\ fig' = IF t.kind = "raise" THEN ErrorFig(t.exc) ELSE fig
    /\ UNCHANGED <<req, primaryOut, computed>>
    /\ UNCHANGED calcVars

\* build_figure from the returned frame on; update_chart returns its result
BuildFigure ==
    /\ pc = "fetched"
    /\ LET b == build_figure(req, df)
       IN  /\ fig' = b.fig
           /\ computed' = b.computed
    /\ pc' = "idle"
    /\ UNCHANGED <<req, calls, primaryOut, secondaryOut, df>>
    /\ UNCHANGED calcVars

NoCall == [fn |-> "", n |-> 0, k |-> Int2F(0), fast |-> 0, slow |-> 0, signal |-> 0]
NoResult == Raise("not called")

Init ==
    /\ RenderInit
    /\ close = Series(<<>>, <<>>)
    /\ call = NoCall
    /\ result = NoResult

Next ==
    \/ \E r \in Requests : UpdateChart(r)
    \/ \E o \in PrimaryOutcomes : YfDownload(o)
    \/ \E o \in SecondaryOutcomes : StooqReadCsv(o)
    \/ BuildFigure

Spec == Init /\ [][Next]_vars

-----------------------------------------------------------------------------
(* The indicator functions on their own: a close series and one call of    *)
(* one of them on it                                                       *)

\* index labels of a series of length l: ascending, descending, all equal
Indexes(l) == {[i \in 1..l |-> i], [i \in 1..l |-> l + 1 - i], [i \in 1..l |-> 1]}

CloseSet ==
    UNION {{Series(idx, [i \in 1..l |-> Int2F(p[i])]) :
               p \in [1..l -> 1..MaxPrice], idx \in Indexes(l)} : l \in 1..MaxLen}

Windows == {-1} \cup 1..(MaxLen + 1)
Multipliers == {Num(1, 2), Int2F(2)}
Spans == 0..3
Periods == -1..3

CalcBB(n, k) ==
    /\ call = NoCall
    /\ call' = [NoCall EXCEPT !.fn = "calc_bb", !.n = n, !.k = k]
    /\ result' = calc_bb(close, n, k)
    /\ UNCHANGED close
    /\ UNCHANGED renderVars

CalcMACD(fast, slow, signal) ==
    /\ call = NoCall
    /\ call' = [NoCall EXCEPT !.fn = "calc_macd", !.fast = fast, !.slow = slow,
                              !.signal = signal]
    /\ result' = calc_macd(close, fast, slow, signal)
    /\ UNCHANGED close
    /\ UNCHANGED renderVars

CalcRSI(n) ==
    /\ call = NoCall
    /\ call' = [NoCall EXCEPT !.fn = "calc_rsi", !.n = n]
    /\ result' = calc_rsi(close, n)
    /\ UNCHANGED close
    /\ UNCHANGED renderVars

InitCalc ==
    /\ RenderInit
    /\ close \in CloseSet
    /\ call = NoCall
    /\ result = NoResult

NextCalc ==
    \/ \E n \in Windows, k \in Multipliers : CalcBB(n, k)
    \/ \E f \in Spans, sl \in Spans, sg \in Spans : CalcMACD(f, sl, sg)
    \/ \E n \in Periods : CalcRSI(n)

SpecCalc == InitCalc /\ [][NextCalc]_vars

\* The constant series under the parameters the sliders permit
ConstClose ==
    Series([i \in 1..ConstDays |-> i], [i \in 1..ConstDays |-> Int2F(ConstPrice)])

SliderK == {Num(i, 2) : i \in 1..8}
SliderSlow == {PeriodMin, SlowDefault, PeriodMax}
SliderSignal == {PeriodMin, SignalDefault, PeriodMax}

InitConst ==
    /\ RenderInit
    /\ close = ConstClose
    /\ call = NoCall
    /\ result = NoResult

NextConst ==
    \/ \E n \in BbNMin..BbNMax, k \in SliderK : CalcBB(n, k)
    \/ \E f \in PeriodMin..PeriodMax, sl \in SliderSlow, sg \in SliderSignal :
           CalcMACD(f, sl, sg)
    \/ \E n \in PeriodMin..PeriodMax : CalcRSI(n)

SpecConst == InitConst /\ [][NextConst]_vars

-----------------------------------------------------------------------------
(* Properties of fetch_data and of the render (specification Spec)         *)

\* fetch_data has returned: build_figure holds its frame or has finished
FetchReturned == pc = "fetched" \/ (pc = "idle" /\ calls # <<>>)

HasRows(o) == o.raised = "" /\ Len(o.frame.rows) > 0 /\ o.frame.cols # {}
HasDatedRows(o) == HasRows(o) /\ "Date" \in o.frame.cols
AllDatesParse(o) ==
    \A i \in 1..Len(o.frame.rows) :
        LET c == o.frame.rows[i].date
        IN  c[1] >= 1 /\ c[2] >= 1 /\ c[2] <= 12 /\ c[3] >= 1 /\ c[3] <= 31

PrimaryReturned ==
    /\ Len(calls) = 1
    /\ calls[1].fn = "yf.download"
    /\ secondaryOut = NotCalled
    /\ df.cols = primaryOut.frame.cols
    /\ df.index = primaryOut.frame.index
    /\ df.rows = primaryOut.frame.rows

SecondaryOnceAfterPrimary ==
    /\ Len(calls) = 2
    /\ calls[1].fn = "yf.download"
    /\ calls[2].fn = "pd.read_csv"

\* df holds the rows of the CSV, indexed by their dates, in ascending order
SecondarySorted ==
    LET src == secondaryOut.frame.rows
    IN  /\ Len(df.rows) = Len(src)
        /\ Len(df.index) = Len(src)
        /\ \E p \in Perms(Len(src)) : \A i \in 1..Len(src) : df.rows[i] = src[p[i]]
        /\ \A i \in 1..Len(src) : df.index[i] = Ordinal(df.rows[i].date)
        /\ \A i \in 1..Len(src), j \in 1..Len(src) :
               i < j => Ordinal(df.rows[i].date) <= Ordinal(df.rows[j].date)
        /\ "Date" \notin df.cols

\* C1 as stated: once fetch_data has returned, a non-empty primary result
\* was returned without any call of the secondary provider; otherwise the
\* secondary provider was called exactly once, after the primary, and rows
\* with a 'Date' column that it gave are returned indexed by date, ascending.
C1_FallbackAnyDates ==
    FetchReturned =>
        /\ HasRows(primaryOut) => PrimaryReturned
        /\ ~HasRows(primaryOut) =>
               /\ SecondaryOnceAfterPrimary
               /\ HasDatedRows(secondaryOut) => SecondarySorted

\* C1 amended: the same, for rows whose 'Date' values all parse as dates.
C1_Fallback ==
    FetchReturned =>
        /\ HasRows(primaryOut) => PrimaryReturned
        /\ ~HasRows(primaryOut) =>
               /\ SecondaryOnceAfterPrimary
               /\ (HasDatedRows(secondaryOut) /\ AllDatesParse(secondaryOut)) =>
                      SecondarySorted

C1_Witness ==
    /\ pc = "fetched"
    /\ primaryOut = Raised("ConnectionError")
    /\ HasDatedRows(secondaryOut)
    /\ AllDatesParse(secondaryOut)
    /\ Len(secondaryOut.frame.rows) = 2
    /\ Ordinal(secondaryOut.frame.rows[1].date) > Ordinal(secondaryOut.frame.rows[2].date)
    /\ SecondarySorted

BothWithoutRows ==
    /\ secondaryOut # NotCalled
    /\ ~HasRows(primaryOut)
    /\ ~HasDatedRows(secondaryOut)

\* C2: when neither provider yields usable rows (an error, an empty table
\* or, for the secondary, no 'Date' column), fetch_data returns the empty
\* frame and nothing is raised; the render then returns the empty figure and
\* computes no indicator.
C2_EmptyResult ==
    BothWithoutRows =>
        /\ pc \in {"fetched", "idle"}
        /\ df = EmptyFrame
        /\ fig.kind # "raise"
        /\ pc = "idle" => (fig = EmptyFig /\ computed = {})

C2_Witness ==
    /\ pc = "idle"
    /\ primaryOut = Raised("ConnectionError")
    /\ secondaryOut = Raised("HTTPError")
    /\ fig = EmptyFig
    /\ computed = {}

StrictlyAscending(idx) == \A i \in 1..(Len(idx) - 1) : idx[i] < idx[i + 1]

\* C3 as stated: every non-empty frame returned by fetch_data has exactly
\* the fields open, high, low, close beside its date index, and its dates
\* are strictly ascending.
C3_CanonicalSchema ==
    (FetchReturned /\ Len(df.rows) > 0 /\ df.cols # {}) =>
        /\ df.cols = OHLC
        /\ StrictlyAscending(df.index)

PrimaryFailed ==
    \/ primaryOut.raised # ""
    \/ Len(primaryOut.frame.rows) = 0
    \/ ~(OHLC \subseteq primaryOut.frame.cols)

\* C4 as stated: a primary provider that raised, gave nothing or gave rows
\* without the Open/High/Low/Close columns makes fetch_data call the
\* secondary provider, and no provider is called twice.
C4_FailureFallsThrough ==
    FetchReturned =>
        /\ PrimaryFailed => SecondaryOnceAfterPrimary
        /\ \A i, j \in 1..Len(calls) : i # j => calls[i].fn # calls[j].fn

\* C5 as stated: with a non-empty OHLC frame, the render completes with a
\* figure whatever the numeric parameters are.
C5_DegenerateNeverRaises ==
    (pc = "idle" /\ calls # <<>> /\ Len(df.rows) > 0 /\ OHLC \subseteq df.cols) =>
        fig.kind = "figure"

-----------------------------------------------------------------------------
(* Properties of the indicator functions (specifications SpecCalc and      *)
(* SpecConst).  The reference values are written out in closed form.       *)

Returned(fn) == call.fn = fn /\ result.raised = ""

RECURSIVE FPow(_, _)
FPow(x, e) == IF e = 0 THEN Int2F(1) ELSE FMul(x, FPow(x, e - 1))

\* sum over j in from..t of a * (1 - a)^(t - j) * xs[j]
RECURSIVE EmaTail(_, _, _, _)
EmaTail(xs, a, t, from) ==
    IF from > t THEN Int2F(0)
    ELSE FAdd(FMul(FMul(a, FPow(FSub(Int2F(1), a), t - from)), xs[from]),
              EmaTail(xs, a, t, from + 1))

\* the recursive average y[1] = xs[1], y[t] = (1 - a) * y[t-1] + a * xs[t]
EmaClosed(xs, a, t) ==
    FAdd(FMul(FPow(FSub(Int2F(1), a), t - 1), xs[1]), EmaTail(xs, a, t, 2))

\* the gains and losses of the price changes: entry j is the change from
\* price j to price j + 1
Positive(x) == IF x.n > 0 THEN x ELSE Int2F(0)
Gains(xs)  == [j \in 1..(Len(xs) - 1) |-> Positive(FSub(xs[j + 1], xs[j]))]
Losses(xs) == [j \in 1..(Len(xs) - 1) |-> Positive(FSub(xs[j], xs[j + 1]))]
SmoothedGain(xs, n, t) == EmaClosed(Gains(xs), Num(1, n), t - 1)
SmoothedLoss(xs, n, t) == EmaClosed(Losses(xs), Num(1, n), t - 1)

\* C6: every defined value of calc_rsi lies in 0..100, and wherever the
\* smoothed loss is 0 the value is undefined (not infinite, not 100).
C6_RsiBounds ==
    Returned("calc_rsi") =>
        LET r == result.out[1].values
        IN  \A t \in 1..Len(r) :
                /\ ~IsNaN(r[t]) =>
                       (IsNum(r[t]) /\ FLe(Int2F(0), r[t]) /\ FLe(r[t], Int2F(100)))
                /\ (t >= 2 /\ SmoothedLoss(close.values, call.n, t) = Int2F(0)) =>
                       IsNaN(r[t])

C6_Witness ==
    /\ Returned("calc_rsi")
    /\ Len(close.values) >= 3
    /\ \E t \in 2..Len(close.values) :
           /\ SmoothedLoss(close.values, call.n, t) = Int2F(0)
           /\ SmoothedGain(close.values, call.n, t).n > 0
           /\ IsNaN(result.out[1].values[t])
    /\ \E t \in 2..Len(close.values) :
           /\ IsNum(result.out[1].values[t])
           /\ result.out[1].values[t].n > 0

\* the constant series
ConstantClose ==
    /\ Len(close.values) = ConstDays
    /\ \A t \in 1..Len(close.values) : close.values[t] = Int2F(ConstPrice)

\* C7: on the constant series, under slider-permitted parameters, every
\* defined point of the three bands equals the price, the MACD line and
\* the signal line are 0 everywhere, and the RSI is undefined everywhere.
C7_ConstantSeries ==
    ConstantClose =>
        /\ Returned("calc_bb") =>
               \A b \in 1..3 : \A t \in 1..ConstDays :
                   ~IsNaN(result.out[b].values[t]) =>
                       result.out[b].values[t] = Int2F(ConstPrice)
        /\ Returned("calc_macd") =>
               \A b \in 1..2 : \A t \in 1..ConstDays :
                   result.out[b].values[t] = Int2F(0)
        /\ Returned("calc_rsi") =>
               \A t \in 1..ConstDays : IsNaN(result.out[1].values[t])
        /\ call.fn # "" => result.raised = ""

C7_Witness ==
    /\ ConstantClose
    /\ Returned("calc_bb")
    /\ call.n > 1
    /\ call.n < ConstDays
    /\ \A b \in 1..3 : result.out[b].values[ConstDays] = Int2F(ConstPrice)

\* the sum of xs[from..t]
RECURSIVE SumOver(_, _, _)
SumOver(xs, from, t) ==
    IF from > t THEN Int2F(0) ELSE FAdd(xs[from], SumOver(xs, from + 1, t))

\* mean and sample standard deviation of the n values ending at t
WindowMean(xs, n, t) == FDiv(SumOver(xs, t - n + 1, t), Int2F(n))
WindowStd(xs, n, t) ==
    LET m  == WindowMean(xs, n, t)
        sq == [j \in 1..Len(xs) |-> FMul(FSub(xs[j], m), FSub(xs[j], m))]
    IN  VSqrt(FDiv(SumOver(sq, t - n + 1, t), Int2F(n - 1)))

\* the bands law for the calls whose window is at least lo
BandsLaw(lo) ==
    (Returned("calc_bb") /\ call.n >= lo) =>
        LET upper == result.out[1].values
            mid   == result.out[2].values
            lower == result.out[3].values
            xs    == close.values
            n     == call.n
            k     == call.k
        IN  \A t \in 1..Len(xs) :
                IF t < n
                THEN IsNaN(upper[t]) /\ IsNaN(mid[t]) /\ IsNaN(lower[t])
                ELSE /\ ~IsNaN(upper[t]) /\ ~IsNaN(mid[t]) /\ ~IsNaN(lower[t])
                     /\ mid[t] = WindowMean(xs, n, t)
                     /\ upper[t] = VAdd(mid[t], VScale(k, WindowStd(xs, n, t)))
                     /\ lower[t] = VSub(mid[t], VScale(k, WindowStd(xs, n, t)))
                     /\ VSub(upper[t], lower[t])
                            = VScale(FMul(Int2F(2), k), WindowStd(xs, n, t))

\* C8 as stated: for every window n the bands are undefined exactly at the
\* first n-1 points, and from then on mid is the mean of the last n closes
\* and upper/lower are mid +- k * std, so upper - lower = 2 * k * std.
C8_BandsAnyWindow == BandsLaw(-1)

\* C8 amended: the same, for every window n >= 2.
C8_Bands == BandsLaw(2)

C8_Witness ==
    /\ Returned("calc_bb")
    /\ call.n = 2
    /\ Len(close.values) >= 3
    /\ IsNaN(result.out[1].values[1])
    /\ IsSurd(result.out[1].values[2])
    /\ result.out[2].values[3] = WindowMean(close.values, 2, 3)

\* C9: every series an indicator returns carries the index of the close
\* series: the same labels, in the same order, one value per label.
C9_SameIndex ==
    (call.fn # "" /\ result.raised = "") =>
        \A b \in 1..Len(result.out) :
            /\ result.out[b].index = close.index
            /\ Len(result.out[b].values) = Len(close.index)

C9_Witness ==
    /\ Returned("calc_rsi")
    /\ Len(close.index) = 3
    /\ close.index[1] > close.index[2]
    /\ result.out[1].index = close.index
    /\ Len(result.out[1].values) = 3

\* C10: the MACD line is the fast minus the slow recursive (unadjusted)
\* average of the closes, each seeded from the first close; the signal line
\* is the same kind of average of the MACD line; the histogram is their
\* difference.
C10_Macd ==
    Returned("calc_macd") =>
        LET m  == result.out[1].values
            sg == result.out[2].values
            h  == result.out[3].values
            xs == close.values
        IN  \A t \in 1..Len(xs) :
                /\ m[t] = FSub(EmaClosed(xs, Num(2, call.fast + 1), t),
                               EmaClosed(xs, Num(2, call.slow + 1), t))
                /\ sg[t] = EmaClosed(m, Num(2, call.signal + 1), t)
                /\ h[t] = FSub(m[t], sg[t])

C10_Witness ==
    /\ Returned("calc_macd")
    /\ call.fast = 2
    /\ call.slow = 3
    /\ call.signal = 2
    /\ Len(close.values) = 3
    /\ result.out[3].values[3].n # 0
    /\ result.out[2].values[3] # result.out[1].values[3]

====
